---------------------------- MODULE Spec2Model ----------------------------
(***************************************************************************)
(* A model of the rocket landing simulator (bruteforce.py), of its two     *)
(* optimizers (the grid sweep of bruteforce.py and genetic_algorithm of    *)
(* metaheuristic.py) and of the Kerbal connector's landing() cycle         *)
(* (ksp_simul.py).                                                         *)
(*                                                                         *)
(* Numbers.  The program computes in floating point.  The model computes   *)
(* in fixed point: a float x is the integer floor(x * Q).  Products and    *)
(* quotients are rounded down (Mul, FDiv), sqrt is the integer square      *)
(* root.  The three outcomes of float arithmetic that are not numbers are  *)
(* kept apart from the numbers: NaN (0/0 in numpy arithmetic) is a flag of *)
(* the value that holds it, an infinite quotient is decided where it is    *)
(* compared, and ZeroDivisionError (0 divisor in plain Python floats) ends *)
(* the call.                                                               *)
(***************************************************************************)
EXTENDS Integers, Sequences, FiniteSets, TLC

\* The fixed-point unit: the integer that stands for the float 1.0.
Q == 100

\* a * b and a / b of two fixed-point numbers, rounded down.
Mul(a, b) == (a * b) \div Q
FDiv(a, b) == (a * Q) \div b

Abs(x) == IF x < 0 THEN -x ELSE x

RECURSIVE SqrtSearch(_, _, _)
SqrtSearch(n, lo, hi) ==
    IF lo >= hi THEN lo
    ELSE LET mid == (lo + hi + 1) \div 2
         IN  IF mid * mid <= n THEN SqrtSearch(n, mid, hi)
                               ELSE SqrtSearch(n, lo, mid - 1)

\* np.sqrt of a fixed-point number whose scale is Q*Q: the result's scale is Q.
Sqrt(n) == SqrtSearch(n, 0, 46340)

-----------------------------------------------------------------------------
(* bruteforce.py: calculate_gravity *)

\* G * M of the Moon, 6.67430e-11 * 7.34767309e22 = 4.90406e12 m^3/s^2, in
\* units of 1e7 m^3/s^2.
GM == 490406
\* The Moon's radius in metres.
R == 1737100

\* -mu / (radius + altitude)^2, for mu in units of 1e7 m^3/s^2, a radius in
\* metres and a fixed-point altitude.  The distance to the centre is rounded
\* down to kilometres: 1e7 * Q / (1000 * 1000) = 10 * Q.
Newton(mu, radius, altitude) ==
    LET d == (radius * Q + altitude) \div (1000 * Q)
    IN  -((mu * 10 * Q) \div (d * d))

calculate_gravity(altitude) == Newton(GM, R, altitude)

-----------------------------------------------------------------------------
(* bruteforce.py: RocketState, Trajectory *)

\* nan: altitude and velocity are NaN (they become NaN in the same step and
\* stay NaN); the two fields then hold 0 and are not read.
RocketState(altitude, velocity, time) ==
    [altitude |-> altitude, velocity |-> velocity, time |-> time, nan |-> FALSE]

NaNState(time) == [altitude |-> 0, velocity |-> 0, time |-> time, nan |-> TRUE]

\* The safety break of the simulation loop, in seconds.
SAFETY_TIME == 1000

-----------------------------------------------------------------------------
(* bruteforce.py: simulate_landing, one iteration of its loop *)

\* Line 86.  Read only where max_thrust + g # 0.
required_distance(velocity, max_thrust, g) ==
    (-(velocity * velocity)) \div (2 * (max_thrust + g))

\* Line 90.
target_velocity(altitude, velocity, g, velocity_change) ==
    Mul(-Sqrt(velocity * velocity + 2 * (-g) * altitude), velocity_change)

\* Line 94.  With max_thrust + g = 0 in numpy arithmetic the quotient of line
\* 86 is -inf (NaN for velocity 0), and so is its product with a positive
\* height_change: the comparison is then false.
WithinRange(altitude, velocity, max_thrust, g, height_change) ==
    IF max_thrust + g = 0
    THEN velocity # 0 /\ height_change < 0
    ELSE altitude <= Mul(required_distance(velocity, max_thrust, g), height_change)

\* Lines 94-102: the thrust tier, an acceleration.
PartialThrust(max_thrust) == Mul(max_thrust, (8 * Q) \div 10)

SelectThrust(altitude, velocity, max_thrust, g, velocity_change, height_change) ==
    IF WithinRange(altitude, velocity, max_thrust, g, height_change)
    THEN max_thrust
    ELSE IF velocity < target_velocity(altitude, velocity, g, velocity_change)
         THEN PartialThrust(max_thrust)
         ELSE 0

\* Line 108: the overshoot guard.
Overshoots(velocity, acceleration, dt) == velocity + Mul(acceleration, dt) > 0

\* Line 110, for velocity_error # 0: g + thrust * (velocity_error / abs(velocity_error)).
GuardedAcceleration(g, thrust, velocity_error) ==
    IF velocity_error > 0 THEN g + thrust ELSE g - thrust

\* Line 112.
RescaledThrust(max_thrust, g) == FDiv(max_thrust, -g)

\* Line 117 losing the time of the state before.
NewTimeRestarted(time, dt) == dt

\* Line 117.
NewTime(time, dt) == time + dt

\* Lines 81-120 from a state whose numbers are numbers: the next state, the
\* max_thrust carried to the next iteration, and whether the guard fired.
\* 0/0 at line 110 is NaN (velocity_error is a numpy float), and NaN thrust
\* factor makes acceleration, velocity and altitude NaN.
StepNumber(s, max_thrust, cfg) ==
    LET g == calculate_gravity(s.altitude)
        tv == target_velocity(s.altitude, s.velocity, g, cfg.velocity_change)
        thrust == SelectThrust(s.altitude, s.velocity, max_thrust, g,
                               cfg.velocity_change, cfg.height_change)
        guard == Overshoots(s.velocity, thrust + g, cfg.dt)
        velocity_error == tv - s.velocity
        acceleration == IF guard THEN GuardedAcceleration(g, thrust, velocity_error)
                                 ELSE thrust + g
        new_velocity == s.velocity + Mul(acceleration, cfg.dt)
        new_height == s.altitude + Mul(new_velocity, cfg.dt)
        new_time == NewTime(s.time, cfg.dt)
    IN  [state |-> IF guard /\ velocity_error = 0
                   THEN NaNState(new_time)
                   ELSE RocketState(new_height, new_velocity, new_time),
         max_thrust |-> IF guard THEN RescaledThrust(max_thrust, g) ELSE max_thrust,
         guard |-> guard,
         thrust |-> thrust]

\* The same lines from a NaN state: every comparison with NaN is false, so the
\* thrust is 0, the guard does not fire, and only the time is a number.
StepNaN(s, max_thrust, cfg) ==
    [state |-> NaNState(NewTime(s.time, cfg.dt)), max_thrust |-> max_thrust,
     guard |-> FALSE, thrust |-> 0]

Step(s, max_thrust, cfg) ==
    IF s.nan THEN StepNaN(s, max_thrust, cfg) ELSE StepNumber(s, max_thrust, cfg)

\* Line 75.
TouchedGround(s) == ~s.nan /\ s.altitude <= 0

\* Line 86 in plain Python floats (no numpy value has entered the run yet):
\* a zero divisor raises ZeroDivisionError.
DivisionFault(s, max_thrust, numpy) ==
    ~s.nan /\ ~numpy /\ max_thrust + calculate_gravity(s.altitude) = 0

\* Line 140 with >= for >.
SafetyBreakAtLimit(s) == s.time >= SAFETY_TIME * Q

\* Line 140.
SafetyBreak(s) == s.time > SAFETY_TIME * Q

\* Line 71.
MaxAcceleration(cfg) == FDiv(cfg.max_thrust_newtons, cfg.rocket_mass)

-----------------------------------------------------------------------------
(* bruteforce.py: simulate_landing as a function, calculate_landing_cost *)

\* A call in progress.  ended tells how it ended: "landed" (line 79, which
\* sets solution_found), "aborted" (line 141) or "raised" (ZeroDivisionError),
\* and is "none" while the loop runs.
Entered(cfg) ==
    [state |-> RocketState(cfg.initial_height, cfg.initial_velocity, 0),
     trajectory |-> <<RocketState(cfg.initial_height, cfg.initial_velocity, 0)>>,
     max_thrust |-> MaxAcceleration(cfg),
     numpy |-> FALSE,
     ended |-> "none"]

\* Lines 73-141: one iteration of the loop.
Iteration(r, cfg) ==
    IF TouchedGround(r.state) THEN [r EXCEPT !.ended = "landed"]
    ELSE IF DivisionFault(r.state, r.max_thrust, r.numpy)
    THEN [r EXCEPT !.ended = "raised"]
    ELSE LET n == Step(r.state, r.max_thrust, cfg)
         IN  [state |-> n.state,
              trajectory |-> Append(r.trajectory, n.state),
              max_thrust |-> n.max_thrust,
              numpy |-> (r.numpy \/ n.guard),
              ended |-> IF SafetyBreak(n.state) THEN "aborted" ELSE "none"]

\* The iterations the loop is followed for in one stretch.
Stretch == 32

\* At most n iterations of the loop.
RECURSIVE Iterations(_, _, _)
Iterations(r, cfg, n) ==
    IF n = 0 \/ r.ended # "none" THEN r
    ELSE Iterations(Iteration(r, cfg), cfg, n - 1)

\* The loop until the call ends, stretch by stretch.
RECURSIVE RunLoop(_, _)
RunLoop(r, cfg) ==
    IF r.ended # "none" THEN r ELSE RunLoop(Iterations(r, cfg, Stretch), cfg)

simulate_landing(cfg) == RunLoop(Entered(cfg), cfg)

\* A float that may be NaN or +inf.
Num(x) == [nan |-> FALSE, inf |-> FALSE, value |-> x]
NaN == [nan |-> TRUE, inf |-> FALSE, value |-> 0]
Inf == [nan |-> FALSE, inf |-> TRUE, value |-> 0]

\* a < b and a == b of two such floats: false when either is NaN.
Less(a, b) == ~a.nan /\ ~b.nan /\ ~a.inf /\ (b.inf \/ a.value < b.value)
Equal(a, b) == ~a.nan /\ ~b.nan /\ a.inf = b.inf /\ a.value = b.value

\* Lines 174-185.
calculate_landing_cost(traj) ==
    LET final_state == traj[Len(traj)]
    IN  IF final_state.nan THEN NaN
        ELSE Num(final_state.time + 2 * Abs(final_state.velocity))

-----------------------------------------------------------------------------
(* The arguments of simulate_landing the model draws from *)

Config(h, v, m, n, dt, vc, hc) ==
    [initial_height |-> h, initial_velocity |-> v, rocket_mass |-> m,
     max_thrust_newtons |-> n, dt |-> dt, velocity_change |-> vc,
     height_change |-> hc]

\* From the ground, 1 m and 10 m; descending, at rest and ascending; the
\* engine of bruteforce.py and no engine; steps of 0.05 s and 1 s.
SweepConfigs ==
    { Config(h, v, e[1], e[2], dt, vc, hc) :
        h \in {0, Q, 10 * Q}, v \in {-5 * Q, 0, 2 * Q},
        e \in {<<1000, 20000>>, <<100, 0>>}, dt \in {5, Q},
        vc \in {0, Q \div 2, Q}, hc \in {Q, 2 * Q} }

\* The scenario of bruteforce.py's sweep at velocity_change 0.5, height_change 1.5.
ReferenceConfig == Config(100 * Q, -50 * Q, 1000, 20000, 5, Q \div 2, (3 * Q) \div 2)
\* The same with no engine, and with a time step of 0.
UnpoweredConfig == Config(100 * Q, -50 * Q, 1000, 0, 5, Q \div 2, (3 * Q) \div 2)
FrozenConfig == Config(100 * Q, -50 * Q, 1000, 20000, 0, Q \div 2, (3 * Q) \div 2)
\* 0.8 of the maximum acceleration balances gravity: a descent at 0.01 m/s
\* from 100 m, in steps of 100 s.
HoverConfig == Config(100 * Q, -1, 100, 203, 100 * Q, 0, Q)
\* The maximum acceleration is the magnitude of gravity.
BalancedConfig == Config(100 * Q, -50 * Q, 100, 162, 5, Q \div 2, Q)
\* A velocity_change below its range (a mutated child of genetic_algorithm),
\* ascending at the target velocity.
DriftedConfig == Config(1, 200 * Q, 1000, 20000, 100 * Q, -Q, Q)

\* A time step of -1 s, from rest at 1 m.
ReversedConfig == Config(Q, 0, 1000, 20000, -Q, Q \div 2, (3 * Q) \div 2)

Configs ==
    SweepConfigs \cup {ReferenceConfig, UnpoweredConfig, FrozenConfig, HoverConfig,
                       BalancedConfig, DriftedConfig, ReversedConfig}

\* The longest trajectory the model follows: the loop of a run that never
\* ends is cut here.
MaxSteps == 300

-----------------------------------------------------------------------------
(* The state of the four programs *)

VARIABLES
    \* simulate_landing, called again and again
    pc,              \* "idle", "loop", or how the last call ended:
                     \* "landed" (line 79), "aborted" (line 141), "raised"
    args,            \* the arguments of the call
    current_state,
    trajectory,
    max_thrust,
    numpy,           \* a numpy float has entered the run's numbers
    \* bruteforce.py's global, set by simulate_landing
    solution_found,
    \* the sweep of bruteforce.py
    grid_pc,             \* "sweep", "done", or "raised"
    vi, hi,              \* the position of the two for loops in their ranges
    attempt,
    trajectories,
    min_cost,
    solution_trajectory, \* <<>> stands for None
    solution_attempt,
    optimal_dv,
    optimal_dh,
    \* genetic_algorithm of metaheuristic.py
    ga_pc,               \* "idle", "loop", "done", or "raised"
    initial_population,
    generations,
    gen,                 \* the generations completed
    population,
    best_cost,
    best_solution,       \* <<>> stands for None
    evaluated,           \* the costs line 43 has computed so far
    \* the loop of ksp_simul.py around landing()
    ksp_pc,              \* "read", "burn", "done", or "raised"
    reading,             \* what the last cycle read from the vessel
    throttle,            \* vessel.control.throttle
    impulse_time         \* the time the last burn was held for

simvars == <<pc, args, current_state, trajectory, max_thrust, numpy>>

gridvars == <<grid_pc, vi, hi, attempt, trajectories, min_cost,
              solution_trajectory, solution_attempt, optimal_dv, optimal_dh>>

gavars == <<ga_pc, initial_population, generations, gen, population,
            best_cost, best_solution, evaluated>>

kspvars == <<ksp_pc, reading, throttle, impulse_time>>

vars == <<simvars, solution_found, gridvars, gavars, kspvars>>

-----------------------------------------------------------------------------
(* simulate_landing as a state machine, called again and again *)

\* Lines 66-71.
Call(cfg) ==
    /\ pc \in {"idle", "landed", "aborted"}
    /\ pc' = "loop"
    /\ args' = cfg
    /\ current_state' = RocketState(cfg.initial_height, cfg.initial_velocity, 0)
    /\ trajectory' = <<RocketState(cfg.initial_height, cfg.initial_velocity, 0)>>
    /\ max_thrust' = MaxAcceleration(cfg)
    /\ numpy' = FALSE
    /\ UNCHANGED <<solution_found, gridvars, gavars, kspvars>>

\* Lines 75-79, then 143.
Land ==
    /\ pc = "loop"
    /\ TouchedGround(current_state)
    /\ solution_found' = TRUE
    /\ pc' = "landed"
    /\ UNCHANGED <<args, current_state, trajectory, max_thrust, numpy>>
    /\ UNCHANGED <<gridvars, gavars, kspvars>>

\* Line 86 raising ZeroDivisionError.
Raise ==
    /\ pc = "loop"
    /\ ~TouchedGround(current_state)
    /\ DivisionFault(current_state, max_thrust, numpy)
    /\ pc' = "raised"
    /\ UNCHANGED <<args, current_state, trajectory, max_thrust, numpy, solution_found>>
    /\ UNCHANGED <<gridvars, gavars, kspvars>>

\* Lines 81-120 and 140-141.
Advance ==
    /\ pc = "loop"
    /\ ~TouchedGround(current_state)
    /\ ~DivisionFault(current_state, max_thrust, numpy)
    /\ Len(trajectory) <= MaxSteps
    /\ LET r == Step(current_state, max_thrust, args)
       IN  /\ current_state' = r.state
           /\ trajectory' = Append(trajectory, r.state)
           /\ max_thrust' = r.max_thrust
           /\ numpy' = (numpy \/ r.guard)
           /\ pc' = IF SafetyBreak(r.state) THEN "aborted" ELSE "loop"
    /\ UNCHANGED <<args, solution_found, gridvars, gavars, kspvars>>

InitSim ==
    /\ pc = "idle"
    /\ args = ReferenceConfig
    /\ current_state = RocketState(0, 0, 0)
    /\ trajectory = <<>>
    /\ max_thrust = 0
    /\ numpy = FALSE

-----------------------------------------------------------------------------
(* bruteforce.py: the sweep of __main__ *)

\* The samples of each coefficient's range.  The program takes 100, 0.01
\* apart (lines 202-203); the model takes GridPoints, Q \div GridPoints apart.
GridPoints == 10

GridStep == Q \div GridPoints

\* np.arange(0.0, 1.0, step)[i + 1] and np.arange(1.0, 2.0, step)[i + 1].
velocity_change_range(i) == i * GridStep
height_change_range(i) == Q + i * GridStep

\* Lines 209-218.
SweepConfig(velocity_change, height_change) ==
    Config(100 * Q, -50 * Q, 1000, 20000, 5, velocity_change, height_change)

\* Line 233 with <= for <.
ImprovesOrTies(current_cost, best) == Less(current_cost, best) \/ Equal(current_cost, best)

\* Line 233.
Improves(current_cost, best) == Less(current_cost, best)

\* Lines 195-200 (and 190-191).
InitGrid ==
    /\ grid_pc = "sweep"
    /\ vi = 0
    /\ hi = 0
    /\ attempt = 0
    /\ trajectories = <<>>
    /\ min_cost = Num(-Q)
    /\ solution_trajectory = <<>>
    /\ solution_attempt = -1
    /\ optimal_dv = -Q
    /\ optimal_dh = -Q

\* Lines 206-240: one pass of the inner loop's body, and the step of the two
\* loops to the next combination.
GridCell ==
    /\ grid_pc = "sweep"
    /\ vi < GridPoints
    /\ \E run \in {simulate_landing(SweepConfig(velocity_change_range(vi),
                                                 height_change_range(hi)))} :
       \E current_cost \in {calculate_landing_cost(run.trajectory)} :
       LET keep == Equal(min_cost, Num(-Q)) \/ Improves(current_cost, min_cost)
       IN  IF run.ended = "raised"
           THEN /\ grid_pc' = "raised"
                /\ UNCHANGED <<vi, hi, attempt, trajectories, min_cost,
                               solution_trajectory, solution_attempt,
                               optimal_dv, optimal_dh, solution_found>>
           ELSE /\ solution_found' = (solution_found \/ run.ended = "landed")
                /\ trajectories' = Append(trajectories, run.trajectory)
                /\ min_cost' = IF keep THEN current_cost ELSE min_cost
                /\ solution_trajectory' =
                       IF keep THEN run.trajectory ELSE solution_trajectory
                /\ solution_attempt' = IF keep THEN attempt ELSE solution_attempt
                /\ optimal_dv' = IF keep THEN velocity_change_range(vi) ELSE optimal_dv
                /\ optimal_dh' = IF keep THEN height_change_range(hi) ELSE optimal_dh
                /\ attempt' = attempt + 1
                /\ hi' = IF hi + 1 < GridPoints THEN hi + 1 ELSE 0
                /\ vi' = IF hi + 1 < GridPoints THEN vi ELSE vi + 1
                /\ UNCHANGED grid_pc
    /\ UNCHANGED <<simvars, gavars, kspvars>>

\* Lines 242-255: the loops are over, the kept result is reported.
GridReport ==
    /\ grid_pc = "sweep"
    /\ vi = GridPoints
    /\ grid_pc' = "done"
    /\ UNCHANGED <<vi, hi, attempt, trajectories, min_cost, solution_trajectory,
                   solution_attempt, optimal_dv, optimal_dh, solution_found>>
    /\ UNCHANGED <<simvars, gavars, kspvars>>


-----------------------------------------------------------------------------
(* metaheuristic.py: genetic_algorithm *)

\* The largest initial_population and the largest generations of the calls.
MaxPopulation == 3
MaxGenerations == 2

\* The individuals np.random.uniform draws at line 30, as
\* <<velocity_change, height_change>>.
InitialGenes == {<<2, 144>>, <<Q \div 2, (3 * Q) \div 2>>}

\* The values np.random.uniform(-0.1, 0.1) draws at line 71.
MutationDeltas == {-7, 1}

\* The caller's scenario: from 100 m, ascending at 0.9 m/s, the rocket of
\* metaheuristic.py, steps of 0.5 s.  Line 41.
GAConfig(individual) ==
    Config(100 * Q, 90, 1000, 20000, Q \div 2, individual[1], individual[2])

\* Lines 38-44: one entry of evaluations.
Evaluation(individual) ==
    LET run == simulate_landing(GAConfig(individual))
    IN  [individual |-> individual,
         cost |-> calculate_landing_cost(run.trajectory),
         trajectory |-> run.trajectory,
         ended |-> run.ended]

Evaluate(pop) == [i \in 1..Len(pop) |-> Evaluation(pop[i])]

\* Line 48: list.sort(key = cost) as CPython sorts a list of fewer than 64
\* entries.  Every decision is one `<' of two keys (KeyLess): the leading run
\* is found (count_run), reversed when it descends strictly, and the entries
\* after it are placed by binary insertion (binarysort).
KeyLess(a, b) == Less(a.cost, b.cost)

RECURSIVE RunEnd(_, _, _)
RunEnd(e, i, descending) ==
    IF i < Len(e) /\ (KeyLess(e[i + 1], e[i]) = descending)
    THEN RunEnd(e, i + 1, descending)
    ELSE i

CountRun(e) ==
    IF Len(e) <= 1 THEN [n |-> Len(e), descending |-> FALSE]
    ELSE LET descending == KeyLess(e[2], e[1])
         IN  [n |-> RunEnd(e, 2, descending), descending |-> descending]

ReverseSlice(e, n) ==
    [i \in 1..Len(e) |-> IF i <= n THEN e[n + 1 - i] ELSE e[i]]

RECURSIVE BinaryPlace(_, _, _, _)
BinaryPlace(e, pivot, l, r) ==
    IF l >= r THEN l
    ELSE LET p == l + (r - l) \div 2
         IN  IF KeyLess(pivot, e[p]) THEN BinaryPlace(e, pivot, l, p)
                                     ELSE BinaryPlace(e, pivot, p + 1, r)

RECURSIVE BinarySort(_, _)
BinarySort(e, start) ==
    IF start > Len(e) THEN e
    ELSE LET at == BinaryPlace(e, e[start], 1, start)
             placed == [i \in 1..Len(e) |->
                           IF i < at \/ i > start THEN e[i]
                           ELSE IF i = at THEN e[start]
                           ELSE e[i - 1]]
         IN  BinarySort(placed, start + 1)

Sort(e) ==
    LET run == CountRun(e)
    IN  BinarySort(IF run.descending THEN ReverseSlice(e, run.n) ELSE e, run.n + 1)

\* Lines 65-71: the draws that make one child.  mutation is <<>> when
\* random.random() >= 0.1, and the two values added otherwise.
Breedings(survivors) ==
    [father : 1..Len(survivors), mother : 1..Len(survivors),
     mutation : {<<>>} \cup (MutationDeltas \X MutationDeltas)]

\* Lines 68-71.
Child(survivors, b) ==
    LET father == survivors[b.father]
        mother == survivors[b.mother]
        child == <<(father[1] + mother[1]) \div 2, (father[2] + mother[2]) \div 2>>
    IN  IF b.mutation = <<>> THEN child
        ELSE <<child[1] + b.mutation[1], child[2] + b.mutation[2]>>

InitGA ==
    /\ ga_pc = "idle"
    /\ initial_population = 0
    /\ generations = 0
    /\ gen = 0
    /\ population = <<>>
    /\ best_cost = Inf
    /\ best_solution = <<>>
    /\ evaluated = {}

\* Lines 30-32.
GAStart(size, gens, pop) ==
    /\ ga_pc = "idle"
    /\ ga_pc' = "loop"
    /\ initial_population' = size
    /\ generations' = gens
    /\ gen' = 0
    /\ population' = pop
    /\ best_cost' = Inf
    /\ best_solution' = <<>>
    /\ evaluated' = {}
    /\ UNCHANGED <<solution_found, simvars, gridvars, kspvars>>

\* Lines 34-75: one generation.  random.choice of an empty list of survivors
\* raises IndexError.
GAGeneration ==
    /\ ga_pc = "loop"
    /\ gen < generations
    /\ \E evaluations \in {Sort(Evaluate(population))} :
       LET best_individual_gen == evaluations[1]
           improved == Less(best_individual_gen.cost, best_cost)
           survivors == [i \in 1..(Len(population) \div 2) |-> evaluations[i].individual]
           wanted == initial_population - Len(survivors)
       IN  /\ evaluated' = evaluated \cup {evaluations[i].cost : i \in 1..Len(evaluations)}
           /\ solution_found' =
                  (solution_found \/ \E i \in 1..Len(evaluations) :
                                        evaluations[i].ended = "landed")
           /\ best_cost' = IF improved THEN best_individual_gen.cost ELSE best_cost
           /\ best_solution' = IF improved THEN best_individual_gen.trajectory
                                           ELSE best_solution
           /\ IF wanted > 0 /\ Len(survivors) = 0
              THEN /\ ga_pc' = "raised"
                   /\ UNCHANGED <<gen, population>>
              ELSE /\ \E breedings \in [1..wanted -> Breedings(survivors)] :
                          population' = survivors \o
                              [i \in 1..wanted |-> Child(survivors, breedings[i])]
                   /\ gen' = gen + 1
                   /\ UNCHANGED ga_pc
    /\ UNCHANGED <<initial_population, generations, simvars, gridvars, kspvars>>

\* Lines 77-78.
GAReturn ==
    /\ ga_pc = "loop"
    /\ gen = generations
    /\ ga_pc' = "done"
    /\ UNCHANGED <<initial_population, generations, gen, population, best_cost,
                   best_solution, evaluated>>
    /\ UNCHANGED <<solution_found, simvars, gridvars, kspvars>>

-----------------------------------------------------------------------------
(* ksp_simul.py: landing() and the loop around it *)

\* The bodies: G * mass in units of 1e7 m^3/s^2 and the equatorial radius in
\* metres (celestialBody.mass, celestialBody.equatorial_radius).  Gravity at
\* the surface is 9.81, 1.62 and 0.49 m/s^2.
Kerbin == [mu |-> 353160, radius |-> 600000]
Mun == [mu |-> 6514, radius |-> 200000]
Minmus == [mu |-> 177, radius |-> 60000]

\* Lines 161-165: the arguments the loop passes in every cycle.
LandingArgs ==
    [velocity_change |-> (19 * Q) \div 10, height_change |-> Q,
     final_height |-> 3 * Q, dt |-> Q]

\* Lines 157-160 and 164: what a cycle reads.  Below and above final_height;
\* descending, at rest and ascending; a vessel with engines, one without, and
\* one whose maximum acceleration is Kerbin's gravity.
Readings ==
    [initial_height : {2 * Q, 5 * Q, 100 * Q},
     initial_velocity : {-50 * Q, -15 * Q, -Q, 0, 30 * Q},
     rocket_mass : {100, 1000},
     max_thrust_newtons : {0, 981, 20000},
     celestialBody : {Kerbin, Mun, Minmus}]

\* Line 64, of the maximum acceleration (max_thrust).  Read only where
\* max_thrust + g # 0.
landing_required_distance(velocity, max_acceleration, g) ==
    (velocity * velocity) \div (2 * (max_acceleration + g))

\* Lines 73-81: the thrust tier, an acceleration.
LandingThrust(altitude, velocity, max_acceleration, g, velocity_change, height_change) ==
    IF altitude <= Mul(landing_required_distance(velocity, max_acceleration, g),
                       height_change)
    THEN max_acceleration
    ELSE IF -velocity < target_velocity(altitude, velocity, g, velocity_change)
         THEN PartialThrust(max_acceleration)
         ELSE 0

\* Lines 52-106 of a cycle that gets past the two early returns and the
\* division of line 64: the thrust, the throttle fraction and the burn time.
Maneuver(r) ==
    LET a == LandingArgs
        max_acceleration == FDiv(r.max_thrust_newtons, r.rocket_mass)
        g == Newton(r.celestialBody.mu, r.celestialBody.radius, r.initial_height)
        terminal_velocity ==
            target_velocity(r.initial_height, r.initial_velocity, g, a.velocity_change)
        thrust == LandingThrust(r.initial_height, r.initial_velocity, max_acceleration,
                                g, a.velocity_change, a.height_change)
        guard == Overshoots(r.initial_velocity, thrust + g, a.dt)
        rescaled == IF guard THEN RescaledThrust(max_acceleration, g)
                             ELSE max_acceleration
        time == Abs(terminal_velocity) - Abs(r.initial_velocity)
    IN  [thrust |-> thrust,
         guard |-> guard,
         impulse |-> FDiv(thrust, rescaled),
         impulse_time |-> IF thrust > 0 /\ time > 0 THEN FDiv(time, Abs(thrust)) ELSE 0]

InitKsp ==
    /\ ksp_pc = "read"
    /\ reading = [initial_height |-> 100 * Q, initial_velocity |-> 0,
                  rocket_mass |-> 1000, max_thrust_newtons |-> 20000,
                  celestialBody |-> Minmus]
    /\ throttle = 0
    /\ impulse_time = 0

\* Lines 155-167 with landing() up to line 109: the state is read and
\* landing() either returns (None at line 50, False at line 57, True at line
\* 135 when no burn is due), raises ZeroDivisionError at line 64, or opens the
\* throttle and sleeps.
KspCycle(r) ==
    /\ ksp_pc = "read"
    /\ reading' = r
    /\ IF r.max_thrust_newtons = 0 \/ r.initial_height <= LandingArgs.final_height
       THEN /\ ksp_pc' = "done"
            /\ UNCHANGED <<throttle, impulse_time>>
       ELSE IF FDiv(r.max_thrust_newtons, r.rocket_mass)
               + Newton(r.celestialBody.mu, r.celestialBody.radius, r.initial_height) = 0
       THEN /\ ksp_pc' = "raised"
            /\ UNCHANGED <<throttle, impulse_time>>
       ELSE \E m \in {Maneuver(r)} :
               /\ impulse_time' = m.impulse_time
               /\ IF m.thrust > 0
                  THEN throttle' = m.impulse /\ ksp_pc' = "burn"
                  ELSE UNCHANGED <<throttle, ksp_pc>>
    /\ UNCHANGED <<solution_found, simvars, gridvars, gavars>>

\* Lines 111-113 and 135: the burn is over, the engines are shut down and
\* landing() returns True.
KspCutoff ==
    /\ ksp_pc = "burn"
    /\ throttle' = 0
    /\ ksp_pc' = "read"
    /\ UNCHANGED <<reading, impulse_time>>
    /\ UNCHANGED <<solution_found, simvars, gridvars, gavars>>

-----------------------------------------------------------------------------
(* Specifications *)

\* bruteforce.py line 190 sets the global before the first call.
Init ==
    /\ solution_found = FALSE
    /\ InitSim
    /\ InitGrid
    /\ InitGA
    /\ InitKsp

\* Calls of simulate_landing, one after the other.
Next ==
    \/ \E cfg \in Configs : Call(cfg)
    \/ Land
    \/ Raise
    \/ Advance

Spec == Init /\ [][Next]_vars

\* The sweep of bruteforce.py.
NextGrid ==
    \/ GridCell
    \/ GridReport

SpecGrid == Init /\ [][NextGrid]_vars

\* A call of genetic_algorithm.
NextGA ==
    \/ \E size \in 1..MaxPopulation, gens \in 1..MaxGenerations :
          \E pop \in [1..size -> InitialGenes] : GAStart(size, gens, pop)
    \/ GAGeneration
    \/ GAReturn

SpecGA == Init /\ [][NextGA]_vars

\* The loop of ksp_simul.py.
NextKsp ==
    \/ \E r \in Readings : KspCycle(r)
    \/ KspCutoff

SpecKsp == Init /\ [][NextKsp]_vars

-----------------------------------------------------------------------------
(* Properties of simulate_landing *)

Returned == pc \in {"landed", "aborted"}

StepsTaken == Len(trajectory) - 1

InNominalRange(cfg) ==
    /\ cfg.velocity_change \in 0..Q
    /\ cfg.height_change \in Q..(2 * Q)

\* The configurations C1 speaks of: above the ground, a maximum acceleration
\* above the local gravity, coefficients in their ranges, a positive step.
C1_Case ==
    /\ pc # "idle"
    /\ args.initial_height > 0
    /\ MaxAcceleration(args) > -calculate_gravity(args.initial_height)
    /\ InNominalRange(args)
    /\ args.dt > 0

C2_StatusOfThisRun ==
    /\ pc = "landed" => solution_found
    /\ (pc = "aborted" /\ ~current_state.nan) => ~solution_found

\* C3: every call stops, and stops Landed or Aborted.  Stated on one
\* iteration: no iteration ends the call by an exception, and an iteration
\* that stays in the loop changes what the next iteration computes from (the
\* loop is deterministic: an iteration that changes nothing repeats for ever).
C3_StopsLandedOrAborted ==
    [][/\ pc' # "raised"
       /\ (pc = "loop" /\ pc' = "loop") =>
             <<current_state, max_thrust, numpy>>' # <<current_state, max_thrust, numpy>>
      ]_vars

C5_UnpoweredAborts ==
    (pc # "idle" /\ args.max_thrust_newtons = 0 /\ args.initial_height > 0) =>
        /\ Len(trajectory) = 1
        /\ pc # "landed"

\* C6: no undefined value (the NaN of 0/0 in the overshoot guard) gets into a
\* state of the trajectory.
C6_NoUndefinedValue ==
    \A i \in 1..Len(trajectory) : ~trajectory[i].nan

-----------------------------------------------------------------------------
(* Properties of the optimizers and of the connector *)

\* The cost of the i-th combination the sweep evaluated.
CellCost(i) == calculate_landing_cost(trajectories[i])

\* C7: when the sweep is over every combination has been evaluated, in
\* row-major order, and the kept result is the first of them whose cost is
\* the minimum: no combination costs less, and none before it costs the same.
C7_FirstMinimumKept ==
    grid_pc = "done" =>
        /\ attempt = GridPoints * GridPoints
        /\ Len(trajectories) = attempt
        /\ solution_attempt \in 0..(attempt - 1)
        /\ min_cost = CellCost(solution_attempt + 1)
        /\ solution_trajectory = trajectories[solution_attempt + 1]
        /\ optimal_dv = velocity_change_range(solution_attempt \div GridPoints)
        /\ optimal_dh = height_change_range(solution_attempt % GridPoints)
        /\ \A i \in 1..attempt :
              /\ trajectories[i][1] = RocketState(100 * Q, -50 * Q, 0)
              /\ ~Less(CellCost(i), min_cost)
              /\ i < solution_attempt + 1 => ~Equal(CellCost(i), min_cost)

\* The sweep is over and a combination after the kept one has the same cost.
C7_Witness ==
    /\ grid_pc = "done"
    /\ \E i \in (solution_attempt + 2)..attempt : Equal(CellCost(i), min_cost)

\* C8: after every generation best_cost is the minimum of the costs evaluated
\* so far (so it never increases), and best_solution is a trajectory of that
\* cost.
C8_BestIsMinimum ==
    (ga_pc \in {"loop", "done"} /\ gen > 0) =>
        /\ \A c \in evaluated : ~Less(c, best_cost)
        /\ best_solution # <<>>
        /\ Equal(calculate_landing_cost(best_solution), best_cost)

\* C9: for every population_size > 0 each generation completes selection and
\* reproduction, and the next generation starts with population_size
\* individuals.
C9_PopulationKept ==
    /\ ga_pc # "raised"
    /\ ga_pc \in {"loop", "done"} => Len(population) = initial_population

\* C10: every throttle value written to the vessel is a fraction in [0, 1].
C10_ThrottleIsFraction == throttle \in 0..Q

\* The tier a thrust is, of a maximum acceleration above 0.
Tier(thrust, max_acceleration) ==
    IF thrust = max_acceleration THEN "full"
    ELSE IF thrust = 0 THEN "none"
    ELSE "partial"

\* The cycle of the last reading got to the tier decision of landing(): past
\* the returns of lines 50 and 57 and the division of line 64.
Decided ==
    /\ reading.max_thrust_newtons # 0
    /\ reading.initial_height > LandingArgs.final_height
    /\ FDiv(reading.max_thrust_newtons, reading.rocket_mass)
         + Newton(reading.celestialBody.mu, reading.celestialBody.radius,
                  reading.initial_height) # 0

\* C11: for the altitude, velocity, maximum acceleration, gravity and
\* coefficients of a cycle, landing() selects the tier that the rule of
\* simulate_landing selects: full when h <= required_distance * height_change
\* with required_distance = -v^2 / (2 * (max_accel + g)), else partial when
\* v < target_v, else none.
C11_SameTier ==
    Decided =>
        LET max_acceleration == FDiv(reading.max_thrust_newtons, reading.rocket_mass)
            g == Newton(reading.celestialBody.mu, reading.celestialBody.radius,
                        reading.initial_height)
        IN  Tier(LandingThrust(reading.initial_height, reading.initial_velocity,
                               max_acceleration, g, LandingArgs.velocity_change,
                               LandingArgs.height_change), max_acceleration)
            = Tier(SelectThrust(reading.initial_height, reading.initial_velocity,
                                max_acceleration, g, LandingArgs.velocity_change,
                                LandingArgs.height_change), max_acceleration)

\* C12: the overshoot guard keeps the vehicle from ascending.  In a run that
\* starts with initial_velocity <= 0 and initial_height > 0 (of a positive
\* time step) every state of the trajectory that holds numbers has
\* velocity <= 0.
C12_NeverAscends ==
    (/\ pc # "idle"
     /\ args.initial_velocity <= 0
     /\ args.initial_height > 0
     /\ args.dt > 0) =>
        \A i \in 1..Len(trajectory) :
            ~trajectory[i].nan => trajectory[i].velocity <= 0

====
